---- MODULE Spec2Model ----
(***************************************************************************)
(* Model of the helper functions of balena-cli's lib/utils/helpers.ts:     *)
(* retry, getManualSortCompareFunction, windowsCmdExeEscapeArg, which and  *)
(* whichSpawn.  Each function has its own specification (SpecRetry, ...);  *)
(* the variables of the functions a specification does not run are held at *)
(* their idle values.                                                      *)
(***************************************************************************)
EXTENDS Integers, Sequences, FiniteSets, TLC

\* ------------------------------------------------------------------------
\* Bounds of the model
\* ------------------------------------------------------------------------

\* retry(): the largest value of the `times` argument that is explored
MaxTimes == 4
\* sort(): the longest array that is sorted
MaxListLen == 3
\* getManualSortCompareFunction(): the longest manuallySortedArray
MaxRefLen == 2
\* windowsCmdExeEscapeArg(): the longest argument, in characters
MaxArgLen == 3
\* shellEscape(): the longest args array
MaxShellArgs == 2

\* ------------------------------------------------------------------------
\* Variables
\* ------------------------------------------------------------------------

VARIABLES
    \* retry(func, times, label, startingDelayMs, backoffScaler)
    times,            \* argument
    startingDelayMs,  \* argument
    backoffScaler,    \* argument
    count,            \* the loop variable
    rpc,              \* where retry() is: "loop", "await_try", "delay", "await_final", "done"
    calls,            \* how many times func() was called so far
    inflight,         \* invocations of func() started and not yet settled
    settled,          \* the promise of the current func() call: "none", "ok", "fail"
    timer,            \* the timer of delay(delayMS): "idle", "pending", "fired"
    events,           \* history: what happened, in order
    result            \* what retry() gave its caller

retryVars == <<times, startingDelayMs, backoffScaler, count, rpc, calls,
               inflight, settled, timer, events, result>>

VARIABLES
    \* which(program, rejectOnMissing) and
    \* whichSpawn(programName, args, options, returnExitCodeOrSignal)
    op,                      \* the function called: "which" or "whichSpawn"
    programName,             \* argument (which: program)
    rejectOnMissing,         \* argument of which
    args,                    \* argument of whichSpawn
    returnExitCodeOrSignal,  \* argument of whichSpawn
    debugEnv,                \* whether process.env.DEBUG is set
    spc,                     \* where the call is: "start", "looked", "await", "done"
    lookup,                  \* how the lookup of the npm `which` module ended
    program,                 \* whichSpawn: the path which() returned
    promise,                 \* whichSpawn: the promise around spawn()
    spawnThrew,              \* whichSpawn: the error spawn() threw, if any
    childEvents,             \* history: the events the child emitted, in order
    spawnLog,                \* history: the calls of spawn()
    debugLines,              \* history: the lines written by console.error
    wresult                  \* what the call gave its caller

spawnVars == <<op, programName, rejectOnMissing, args, returnExitCodeOrSignal,
               debugEnv, spc, lookup, program, promise, spawnThrew, childEvents,
               spawnLog, debugLines, wresult>>

VARIABLES
    \* getManualSortCompareFunction(manuallySortedArray, equalityFunc) and the
    \* sort() of an array with the function it returns
    manuallySortedArray,  \* argument
    equalityFunc,         \* argument: the name of the test
    list,                 \* the array that is sorted
    sorted,               \* the array after sort(compare)
    sortpc,               \* "start" or "sorted"
    cmpArgs,              \* the three items a, b, c that are compared
    cmpResults            \* the results of compare on their pairs

sortVars == <<manuallySortedArray, equalityFunc, list, sorted, sortpc,
              cmpArgs, cmpResults>>

VARIABLES
    \* windowsCmdExeEscapeArg(arg) and cmd.exe reading what it returns
    arg,      \* argument
    escaped,  \* the string windowsCmdExeEscapeArg returned
    parsed,   \* the argument a program started by cmd.exe receives
    epc       \* "start", "escaped" or "parsed"

escapeVars == <<arg, escaped, parsed, epc>>

VARIABLES
    \* windowsCmdExeEscapeArg called on '"' + arg + '"' and on its own output
    requoted,  \* windowsCmdExeEscapeArg('"' + arg + '"')
    twice,     \* windowsCmdExeEscapeArg(windowsCmdExeEscapeArg(arg))
    apc        \* "start", "requoted" or "twice"

againVars == <<requoted, twice, apc>>

\* nothing is being escaped a second time
IdleAgain ==
    /\ requoted = <<>>
    /\ twice = <<>>
    /\ apc = "idle"

VARIABLES
    \* shellEscape(args, detectShell)
    shArgs,       \* argument args
    detectShell,  \* argument
    platform,     \* process.platform
    envSHELL,     \* process.env.SHELL
    envComSpec,   \* process.env.ComSpec
    shOut,        \* the array shellEscape returned
    shpc          \* "start" or "done"

shellVars == <<shArgs, detectShell, platform, envSHELL, envComSpec, shOut, shpc>>

\* shellEscape() is not running
IdleShell ==
    /\ shArgs = <<>>
    /\ detectShell = FALSE
    /\ platform = "none"
    /\ envSHELL = {}
    /\ envComSpec = {}
    /\ shOut = <<>>
    /\ shpc = "idle"

VARIABLES
    \* getProxyConfig()
    PROXY_CONFIG,  \* global.PROXY_CONFIG
    HTTPS_PROXY,   \* process.env.HTTPS_PROXY
    HTTP_PROXY,    \* process.env.HTTP_PROXY
    proxyConfig,   \* the value getProxyConfig returned
    gpc            \* "start" or "done"

proxyVars == <<PROXY_CONFIG, HTTPS_PROXY, HTTP_PROXY, proxyConfig, gpc>>

\* getProxyConfig() is not running
IdleProxy ==
    /\ PROXY_CONFIG = {}
    /\ HTTPS_PROXY = {}
    /\ HTTP_PROXY = {}
    /\ proxyConfig = {}
    /\ gpc = "idle"

VARIABLES
    \* sudo(command, {stderr, msg, isCLIcmd})
    command,      \* argument
    stderr,       \* option: a stream, or not given
    msg,          \* option: a string, or not given
    isCLIcmd,     \* option: a boolean, or not given
    osPlatform,   \* os.platform()
    sudopc,       \* "start", "importing", "elevating", "settling", "done"
    elevation,    \* the promise executeWithPrivileges returned
    sudoLog,      \* history: console.log lines and executeWithPrivileges calls
    sudoResult    \* how the call ended

sudoVars == <<command, stderr, msg, isCLIcmd, osPlatform, sudopc, elevation, sudoLog, sudoResult>>

\* sudo() is not running
IdleSudo ==
    /\ command = <<>>
    /\ stderr = {}
    /\ msg = {}
    /\ isCLIcmd = {}
    /\ osPlatform = "none"
    /\ sudopc = "idle"
    /\ elevation = [state |-> "none"]
    /\ sudoLog = <<>>
    /\ sudoResult = [kind |-> "none"]

vars == <<retryVars, spawnVars, sortVars, escapeVars, againVars, shellVars, proxyVars, sudoVars>>

notRetryVars == <<spawnVars, sortVars, escapeVars, againVars, shellVars, proxyVars, sudoVars>>
notSpawnVars == <<retryVars, sortVars, escapeVars, againVars, shellVars, proxyVars, sudoVars>>
notSortVars == <<retryVars, spawnVars, escapeVars, againVars, shellVars, proxyVars, sudoVars>>
notEscapeVars == <<retryVars, spawnVars, sortVars, againVars, shellVars, proxyVars, sudoVars>>
notAgainVars == <<retryVars, spawnVars, sortVars, escapeVars, shellVars, proxyVars, sudoVars>>
notShellVars == <<retryVars, spawnVars, sortVars, escapeVars, againVars, proxyVars, sudoVars>>
notProxyVars == <<retryVars, spawnVars, sortVars, escapeVars, againVars, shellVars, sudoVars>>
notSudoVars == <<retryVars, spawnVars, sortVars, escapeVars, againVars, shellVars, proxyVars>>

NoResult == [kind |-> "none", id |-> 0]

\* A value that may be absent (undefined or null) is a set with at most one
\* element.
Absent == {}
Present(v) == {v}

\* The empty string '' (a string is the sequence of its parts)
EmptyString == <<>>

NoLookup == [ok |-> FALSE, path |-> EmptyString, code |-> "none"]
NoPromise == [state |-> "none", code |-> Absent, signal |-> Absent, err |-> Absent]
NoOutcome == [kind |-> "none"]

\* All sequences over S of length at most n
SeqsUpTo(S, n) == UNION {[1..k -> S] : k \in 0..n}

\* nothing is being sorted
IdleSort ==
    /\ manuallySortedArray = <<>>
    /\ equalityFunc = "none"
    /\ list = <<>>
    /\ sorted = <<>>
    /\ sortpc = "idle"
    /\ cmpArgs = <<>>
    /\ cmpResults = <<>>

\* nothing is being escaped
IdleEscape ==
    /\ arg = <<>>
    /\ escaped = <<>>
    /\ parsed = <<>>
    /\ epc = "idle"

\* which() and whichSpawn() are not running
IdleSpawn ==
    /\ op = "none"
    /\ programName = "none"
    /\ rejectOnMissing = TRUE
    /\ args = <<>>
    /\ returnExitCodeOrSignal = FALSE
    /\ debugEnv = FALSE
    /\ spc = "idle"
    /\ lookup = NoLookup
    /\ program = EmptyString
    /\ promise = NoPromise
    /\ spawnThrew = Absent
    /\ childEvents = <<>>
    /\ spawnLog = <<>>
    /\ debugLines = <<>>
    /\ wresult = NoOutcome

\* ------------------------------------------------------------------------
\* retry()
\* ------------------------------------------------------------------------

\* The `times` arguments explored (0 runs the loop body never, as 1 does)
TimesValues == 0..MaxTimes
\* The startingDelayMs arguments explored (1000 is the default)
StartingDelays == {0, 1000}
\* The backoffScaler arguments explored (2 is the default)
BackoffScalers == {1, 2, 3}

\* for (...; count < times - 1; ...)
LoopTest_OffByOne(c, t) == c < t
LoopTest(c, t) == c < t - 1

\* const delayMS = backoffScaler ** count * startingDelayMs;
DelayMS_Linear(c, start, scaler) == scaler * c * start
DelayMS(c, start, scaler) == (scaler ^ c) * start

\* await delay(delayMS): retry() goes on once the timer has fired
DelayAwaited_NoAwait(t) == TRUE
DelayAwaited(t) == t = "fired"

\* retry() is not running
IdleRetry ==
    /\ times = 0
    /\ startingDelayMs = 0
    /\ backoffScaler = 1
    /\ count = 0
    /\ rpc = "idle"
    /\ calls = 0
    /\ inflight = 0
    /\ settled = "none"
    /\ timer = "idle"
    /\ events = <<>>
    /\ result = NoResult

RetryStart ==
    /\ times \in TimesValues
    /\ startingDelayMs \in StartingDelays
    /\ backoffScaler \in BackoffScalers
    /\ count = 0
    /\ rpc = "loop"
    /\ calls = 0
    /\ inflight = 0
    /\ settled = "none"
    /\ timer = "idle"
    /\ events = <<>>
    /\ result = NoResult

InitRetry == RetryStart /\ IdleSpawn /\ IdleSort /\ IdleEscape /\ IdleAgain /\ IdleShell /\ IdleProxy /\ IdleSudo

\* try { return await func(); : the call of func() inside the loop
RetryTryCall ==
    /\ rpc = "loop"
    /\ LoopTest(count, times)
    /\ calls' = calls + 1
    /\ inflight' = inflight + 1
    /\ settled' = "none"
    /\ events' = Append(events, <<"call", calls + 1>>)
    /\ rpc' = "await_try"
    /\ UNCHANGED notRetryVars
    /\ UNCHANGED <<times, startingDelayMs, backoffScaler, count, timer, result>>

\* func() returns a value, or the promise it returned is fulfilled
FuncFulfils ==
    /\ inflight > 0
    /\ settled = "none"
    /\ settled' = "ok"
    /\ inflight' = inflight - 1
    /\ events' = Append(events, <<"ok", calls>>)
    /\ UNCHANGED notRetryVars
    /\ UNCHANGED <<times, startingDelayMs, backoffScaler, count, rpc, calls,
                   timer, result>>

\* func() throws, or the promise it returned is rejected
FuncRejects ==
    /\ inflight > 0
    /\ settled = "none"
    /\ settled' = "fail"
    /\ inflight' = inflight - 1
    /\ events' = Append(events, <<"fail", calls>>)
    /\ UNCHANGED notRetryVars
    /\ UNCHANGED <<times, startingDelayMs, backoffScaler, count, rpc, calls,
                   timer, result>>

\* return await func(); inside the try block, func() having succeeded
RetryTryReturn ==
    /\ rpc = "await_try"
    /\ settled = "ok"
    /\ result' = [kind |-> "value", id |-> calls]
    /\ rpc' = "done"
    /\ UNCHANGED notRetryVars
    /\ UNCHANGED <<times, startingDelayMs, backoffScaler, count, calls,
                   inflight, settled, timer, events>>

\* catch (err) { delayMS = ...; console.log(...); await delay(delayMS);
RetryCatch ==
    /\ rpc = "await_try"
    /\ settled = "fail"
    /\ LET delayMS == DelayMS(count, startingDelayMs, backoffScaler)
       IN events' = events \o << <<"log", count + 1>>, <<"wait", delayMS>> >>
    /\ timer' = "pending"
    /\ rpc' = "delay"
    /\ UNCHANGED notRetryVars
    /\ UNCHANGED <<times, startingDelayMs, backoffScaler, count, calls,
                   inflight, settled, result>>

\* the timer set by delay(delayMS) fires
TimerFires ==
    /\ timer = "pending"
    /\ timer' = "fired"
    /\ events' = Append(events, <<"elapsed", 0>>)
    /\ UNCHANGED notRetryVars
    /\ UNCHANGED <<times, startingDelayMs, backoffScaler, count, rpc, calls,
                   inflight, settled, result>>

\* the end of the catch block and count++
RetryDelayDone ==
    /\ rpc = "delay"
    /\ DelayAwaited(timer)
    /\ count' = count + 1
    /\ timer' = "idle"
    /\ rpc' = "loop"
    /\ UNCHANGED notRetryVars
    /\ UNCHANGED <<times, startingDelayMs, backoffScaler, calls, inflight,
                   settled, events, result>>

\* return await func(); after the loop: the call
RetryFinalCall ==
    /\ rpc = "loop"
    /\ ~LoopTest(count, times)
    /\ calls' = calls + 1
    /\ inflight' = inflight + 1
    /\ settled' = "none"
    /\ events' = Append(events, <<"call", calls + 1>>)
    /\ rpc' = "await_final"
    /\ UNCHANGED notRetryVars
    /\ UNCHANGED <<times, startingDelayMs, backoffScaler, count, timer, result>>

\* return await func(); after the loop: func() succeeded
RetryFinalReturn ==
    /\ rpc = "await_final"
    /\ settled = "ok"
    /\ result' = [kind |-> "value", id |-> calls]
    /\ rpc' = "done"
    /\ UNCHANGED notRetryVars
    /\ UNCHANGED <<times, startingDelayMs, backoffScaler, count, calls,
                   inflight, settled, timer, events>>

\* return await func(); after the loop: func() failed, the error goes to the caller
RetryFinalThrow ==
    /\ rpc = "await_final"
    /\ settled = "fail"
    /\ result' = [kind |-> "error", id |-> calls]
    /\ rpc' = "done"
    /\ UNCHANGED notRetryVars
    /\ UNCHANGED <<times, startingDelayMs, backoffScaler, count, calls,
                   inflight, settled, timer, events>>

NextRetry ==
    \/ RetryTryCall
    \/ FuncFulfils
    \/ FuncRejects
    \/ RetryTryReturn
    \/ RetryCatch
    \/ TimerFires
    \/ RetryDelayDone
    \/ RetryFinalCall
    \/ RetryFinalReturn
    \/ RetryFinalThrow

SpecRetry == InitRetry /\ [][NextRetry]_vars

\* ------------------------------------------------------------------------
\* Properties of retry()
\* ------------------------------------------------------------------------

\* the positions of the events of one kind
EventsOf(kind) == {p \in 1..Len(events) : events[p][1] = kind}
\* the waits of the run, in order
RECURSIVE WaitsFrom(_)
WaitsFrom(p) ==
    IF p > Len(events) THEN <<>>
    ELSE IF events[p][1] = "wait" THEN <<events[p][2]>> \o WaitsFrom(p + 1)
    ELSE WaitsFrom(p + 1)
Waits == WaitsFrom(1)

AllAttemptsFailed == rpc = "done" /\ EventsOf("ok") = {}

C2_BackoffSequence ==
    /\ \A p \in EventsOf("wait") :
          LET i == Cardinality({q \in EventsOf("fail") : q < p}) - 1
          IN  /\ i >= 0
              /\ events[p][2] = startingDelayMs * (backoffScaler ^ i)
    /\ \A p \in EventsOf("ok") :
          /\ p = Len(events)
          /\ events[p - 1] = <<"call", events[p][2]>>
          /\ rpc = "done" => result = [kind |-> "value", id |-> events[p][2]]
    /\ (/\ rpc = "done"
        /\ times = 3 /\ startingDelayMs = 1000 /\ backoffScaler = 2
        /\ Cardinality(EventsOf("fail")) = 2
        /\ EventsOf("ok") # {})
       => /\ Waits = <<1000, 2000>>
          /\ result = [kind |-> "value", id |-> 3]

C2_Witness ==
    /\ rpc = "done"
    /\ times = 3 /\ startingDelayMs = 1000 /\ backoffScaler = 2
    /\ Waits = <<1000, 2000>>
    /\ result = [kind |-> "value", id |-> 3]

\* C3: Attempts never overlap: at most one invocation of func is in
\* progress, and attempt k+1 is started only after attempt k has failed and
\* the delay that follows it has elapsed.
C3_AttemptsSequential ==
    /\ inflight <= 1
    /\ \A p \in EventsOf("call") :
          events[p][2] > 1 =>
              /\ p > 4
              /\ events[p - 4] = <<"fail", events[p][2] - 1>>
              /\ events[p - 3][1] = "log"
              /\ events[p - 2][1] = "wait"
              /\ events[p - 1][1] = "elapsed"

C3_Witness ==
    /\ inflight = 1
    /\ calls = 3
    /\ Cardinality(EventsOf("elapsed")) = 2

\* C4: As the doc comment of retry() has it, func is retried `times` many
\* times: when func keeps failing there are `times` retries after the
\* initial call, that is times + 1 calls.
C4_RetriedTimesManyTimes ==
    AllAttemptsFailed => calls = times + 1

\* ------------------------------------------------------------------------
\* which() and whichSpawn()
\* ------------------------------------------------------------------------

\* The program names explored
Programs == {"ssh", "git"}
\* The directories of the search path
SearchDirs == {"/usr/bin", "/usr/local/bin"}
\* The argument vectors explored
ArgVectors == {<<>>, <<"-v">>, <<"-p", "22">>}
\* The exit codes a close event may carry (a negative one follows a failed launch)
ExitCodes == {-2, 0, 1}
\* The signals a close event may carry
Signals == {"SIGTERM", "SIGKILL"}
\* The error codes of a lookup that fails, of a spawn() that throws and of an
\* error event
LookupErrorCodes == {"ENOENT", "EACCES"}
SpawnErrorCodes == {"EACCES", "EINVAL"}

\* An error object of the platform, as thrown by the `which` module or by spawn()
Errno(code) == [type |-> "Errno", code |-> code]
\* new ExpectedError(`'${program}' program not found. Is it installed?`)
ExpectedError(p) == [type |-> "ExpectedError", program |-> p]

\* How whichMod(program) may end: the path found in a directory of the search
\* path, or an error
LookupOutcomes(p) ==
    {[ok |-> TRUE, path |-> <<d, p>>, code |-> "none"] : d \in SearchDirs}
    \cup {[ok |-> FALSE, path |-> EmptyString, code |-> c] : c \in LookupErrorCodes}

\* The (code, signal) pairs of a close event: one of the two is null
CloseEvents ==
    {[kind |-> "close", code |-> Present(c), signal |-> Absent, err |-> Absent] :
        c \in ExitCodes}
    \cup {[kind |-> "close", code |-> Absent, signal |-> Present(g), err |-> Absent] :
        g \in Signals}
ErrorEvents ==
    {[kind |-> "error", code |-> Absent, signal |-> Absent, err |-> Present(Errno(c))] :
        c \in SpawnErrorCodes}

Return(v) == [kind |-> "return", value |-> v]
Throw(e) == [kind |-> "throw", err |-> e]

\* which(program, rejectOnMissing), given how whichMod(program) ended
Which_SwallowErrors(outcome, p, reject) ==
    IF outcome.ok THEN Return(outcome.path) ELSE Return(EmptyString)
Which_AlwaysSoft(outcome, p, reject) ==
    IF outcome.ok THEN Return(outcome.path)
    ELSE IF outcome.code = "ENOENT" THEN Return(EmptyString)
    ELSE Throw(Errno(outcome.code))
Which(outcome, p, reject) ==
    IF outcome.ok THEN Return(outcome.path)
    ELSE IF outcome.code = "ENOENT"
         THEN IF reject THEN Throw(ExpectedError(p)) ELSE Return(EmptyString)
    ELSE Throw(Errno(outcome.code))

\* The truth value Javascript gives an exit code (null, undefined and 0 are
\* false) or a signal name (null, undefined and '' are false)
TruthyCode(c) == c # Absent /\ c # Present(0)
TruthySignal(g) == g # Absent /\ g # Present("")

\* if (error || (!returnExitCodeOrSignal && (exitCode || exitSignal)))
WhichSpawnFails_CodeOnly(error, ret, exitCode, exitSignal) ==
    error # Absent \/ (~ret /\ TruthyCode(exitCode))
WhichSpawnFails_NoError(error, ret, exitCode, exitSignal) ==
    ~ret /\ (TruthyCode(exitCode) \/ TruthySignal(exitSignal))
WhichSpawnFails(error, ret, exitCode, exitSignal) ==
    error # Absent \/ (~ret /\ (TruthyCode(exitCode) \/ TruthySignal(exitSignal)))

\* new Error(msg.join('\n')): the parts the message is made of
SpawnFailure(name, path, argv, exitCode, exitSignal, error) ==
    [type |-> "Error", programName |-> name, program |-> path, args |-> argv,
     exitCode |-> exitCode, exitSignal |-> exitSignal, cause |-> error]

SpawnStart ==
    /\ \/ /\ op = "which"
          /\ rejectOnMissing \in BOOLEAN
          /\ args = <<>>
          /\ returnExitCodeOrSignal = FALSE
          /\ debugEnv = FALSE
       \/ /\ op = "whichSpawn"
          /\ rejectOnMissing = TRUE
          /\ args \in ArgVectors
          /\ returnExitCodeOrSignal \in BOOLEAN
          /\ debugEnv \in BOOLEAN
    /\ programName \in Programs
    /\ spc = "start"
    /\ lookup = NoLookup
    /\ program = EmptyString
    /\ promise = NoPromise
    /\ spawnThrew = Absent
    /\ childEvents = <<>>
    /\ spawnLog = <<>>
    /\ debugLines = <<>>
    /\ wresult = NoOutcome

InitSpawn == SpawnStart /\ IdleRetry /\ IdleSort /\ IdleEscape /\ IdleAgain /\ IdleShell /\ IdleProxy /\ IdleSudo

\* programPath = await whichMod(program): the lookup ends
WhichLookup ==
    /\ spc = "start"
    /\ \E o \in LookupOutcomes(programName) : lookup' = o
    /\ spc' = "looked"
    /\ UNCHANGED notSpawnVars
    /\ UNCHANGED <<op, programName, rejectOnMissing, args, returnExitCodeOrSignal,
                   debugEnv, program, promise, spawnThrew, childEvents, spawnLog,
                   debugLines, wresult>>

\* which() called by itself: the rest of the function
WhichSettles ==
    /\ op = "which"
    /\ spc = "looked"
    /\ wresult' = Which(lookup, programName, rejectOnMissing)
    /\ spc' = "done"
    /\ UNCHANGED notSpawnVars
    /\ UNCHANGED <<op, programName, rejectOnMissing, args, returnExitCodeOrSignal,
                   debugEnv, lookup, program, promise, spawnThrew, childEvents,
                   spawnLog, debugLines>>

\* whichSpawn: const program = await which(programName) throws
WhichSpawnLookupThrows ==
    /\ op = "whichSpawn"
    /\ spc = "looked"
    /\ LET w == Which(lookup, programName, TRUE)
       IN  /\ w.kind = "throw"
           /\ wresult' = w
    /\ spc' = "done"
    /\ UNCHANGED notSpawnVars
    /\ UNCHANGED <<op, programName, rejectOnMissing, args, returnExitCodeOrSignal,
                   debugEnv, lookup, program, promise, spawnThrew, childEvents,
                   spawnLog, debugLines>>

\* whichSpawn: which() returned; the debug line, then new Promise(...) whose
\* executor calls spawn(program, args, options), which either throws (the
\* promise is rejected) or starts a child (the promise is pending)
WhichSpawnSpawn ==
    /\ op = "whichSpawn"
    /\ spc = "looked"
    /\ LET w == Which(lookup, programName, TRUE)
       IN  /\ w.kind = "return"
           /\ program' = w.value
           /\ debugLines' = IF debugEnv THEN Append(debugLines, <<w.value, args>>)
                            ELSE debugLines
           /\ spawnLog' = Append(spawnLog, <<w.value, args>>)
    /\ \/ /\ spawnThrew' = Absent
          /\ promise' = [NoPromise EXCEPT !.state = "pending"]
       \/ \E c \in SpawnErrorCodes :
             /\ spawnThrew' = Present(Errno(c))
             /\ promise' = [NoPromise EXCEPT !.state = "rejected",
                                             !.err = Present(Errno(c))]
    /\ spc' = "await"
    /\ UNCHANGED notSpawnVars
    /\ UNCHANGED <<op, programName, rejectOnMissing, args, returnExitCodeOrSignal,
                   debugEnv, lookup, childEvents, wresult>>

\* .on('error', reject): the first settlement of a promise is the one that counts
OnError(p, e) ==
    IF p.state = "pending"
    THEN [p EXCEPT !.state = "rejected", !.err = e.err]
    ELSE p
\* .on('close', (code, signal) => resolve([code, signal]))
OnClose(p, e) ==
    IF p.state = "pending"
    THEN [p EXCEPT !.state = "resolved", !.code = e.code, !.signal = e.signal]
    ELSE p

HasEmitted(kind) == \E i \in 1..Len(childEvents) : childEvents[i].kind = kind

\* the child emits its error event
ChildEmitsError ==
    /\ op = "whichSpawn"
    /\ spawnLog # <<>>
    /\ spawnThrew = Absent
    /\ ~HasEmitted("error")
    /\ \E e \in ErrorEvents :
          /\ childEvents' = Append(childEvents, e)
          /\ promise' = OnError(promise, e)
    /\ UNCHANGED notSpawnVars
    /\ UNCHANGED <<op, programName, rejectOnMissing, args, returnExitCodeOrSignal,
                   debugEnv, spc, lookup, program, spawnThrew, spawnLog,
                   debugLines, wresult>>

\* the child emits its close event
ChildEmitsClose ==
    /\ op = "whichSpawn"
    /\ spawnLog # <<>>
    /\ spawnThrew = Absent
    /\ ~HasEmitted("close")
    /\ \E e \in CloseEvents :
          /\ childEvents' = Append(childEvents, e)
          /\ promise' = OnClose(promise, e)
    /\ UNCHANGED notSpawnVars
    /\ UNCHANGED <<op, programName, rejectOnMissing, args, returnExitCodeOrSignal,
                   debugEnv, spc, lookup, program, spawnThrew, spawnLog,
                   debugLines, wresult>>

\* whichSpawn: the promise is settled; the rest of the function
WhichSpawnSettles ==
    /\ op = "whichSpawn"
    /\ spc = "await"
    /\ promise.state \in {"resolved", "rejected"}
    /\ LET error == IF promise.state = "rejected" THEN promise.err ELSE Absent
           exitCode == IF promise.state = "resolved" THEN promise.code ELSE Absent
           exitSignal == IF promise.state = "resolved" THEN promise.signal ELSE Absent
       IN  wresult' =
             IF WhichSpawnFails(error, returnExitCodeOrSignal, exitCode, exitSignal)
             THEN Throw(SpawnFailure(programName, program, args, exitCode,
                                     exitSignal, error))
             ELSE Return(<<exitCode, exitSignal>>)
    /\ spc' = "done"
    /\ UNCHANGED notSpawnVars
    /\ UNCHANGED <<op, programName, rejectOnMissing, args, returnExitCodeOrSignal,
                   debugEnv, lookup, program, promise, spawnThrew, childEvents,
                   spawnLog, debugLines>>

NextSpawn ==
    \/ WhichLookup
    \/ WhichSettles
    \/ WhichSpawnLookupThrows
    \/ WhichSpawnSpawn
    \/ ChildEmitsError
    \/ ChildEmitsClose
    \/ WhichSpawnSettles

SpecSpawn == InitSpawn /\ [][NextSpawn]_vars

\* ------------------------------------------------------------------------
\* Properties of which() and whichSpawn()
\* ------------------------------------------------------------------------

WhichDone == op = "which" /\ spc = "done"
WhichSpawnDone == op = "whichSpawn" /\ spc = "done"
\* the child terminated: its close event came first and settled the promise
ClosedFirst == childEvents # <<>> /\ childEvents[1].kind = "close"
\* the launch failed: spawn() threw, or the child's error event came first
ErrorFirst ==
    \/ spawnThrew # Absent
    \/ childEvents # <<>> /\ childEvents[1].kind = "error"
\* the error of a failed launch
LaunchError ==
    IF spawnThrew # Absent THEN spawnThrew ELSE childEvents[1].err
ExactlyOnePresent(c, g) == (c # Absent) # (g # Absent)

\* C5: whichSpawn normalizes the child's termination (close event with code,
\* signal): with returnExitCodeOrSignal it returns [code, signal], exactly
\* one of them present, whatever their values; without it, it returns only
\* for exit code 0 with no signal, and raises an error carrying program
\* name, resolved path, argument vector, exit code and signal otherwise.
C5_TerminationByPolicy ==
    (WhichSpawnDone /\ ClosedFirst) =>
        LET c == childEvents[1].code
            g == childEvents[1].signal
        IN  /\ returnExitCodeOrSignal =>
                /\ wresult = Return(<<c, g>>)
                /\ ExactlyOnePresent(wresult.value[1], wresult.value[2])
            /\ (~returnExitCodeOrSignal /\ c = Present(0) /\ g = Absent) =>
                wresult = Return(<<Present(0), Absent>>)
            /\ (~returnExitCodeOrSignal /\ ~(c = Present(0) /\ g = Absent)) =>
                /\ wresult.kind = "throw"
                /\ wresult.err.type = "Error"
                /\ wresult.err.programName = programName
                /\ wresult.err.program = lookup.path
                /\ wresult.err.args = args
                /\ wresult.err.exitCode = c
                /\ wresult.err.exitSignal = g
            /\ (~returnExitCodeOrSignal /\ wresult.kind = "return") =>
                (c = Present(0) /\ g = Absent)

C5_Witness ==
    /\ WhichSpawnDone
    /\ ClosedFirst
    /\ ~returnExitCodeOrSignal
    /\ childEvents[1].signal = Present("SIGTERM")
    /\ wresult.kind = "throw"

C7_WhichNotFound ==
    WhichDone =>
        /\ (lookup.code = "ENOENT" /\ rejectOnMissing) =>
              /\ wresult.kind = "throw"
              /\ wresult.err = ExpectedError(programName)
        /\ (lookup.code = "ENOENT" /\ ~rejectOnMissing) =>
              /\ wresult.kind = "return"
              /\ wresult.value = EmptyString
        /\ (~lookup.ok /\ lookup.code # "ENOENT") =>
              /\ wresult.kind = "throw"
              /\ wresult.err = Errno(lookup.code)
        /\ lookup.ok =>
              /\ wresult.kind = "return"
              /\ wresult.value = lookup.path
              /\ wresult.value # EmptyString
        /\ (wresult.kind = "return" /\ wresult.value = EmptyString) =>
              (~rejectOnMissing /\ lookup.code = "ENOENT")

C7_Witness ==
    /\ WhichDone
    /\ ~rejectOnMissing
    /\ lookup.code = "ENOENT"
    /\ wresult.kind = "return"
    /\ wresult.value = EmptyString

\* C15: in whichSpawn nothing is spawned or printed before the lookup has
\* ended; when which(programName) fails, whichSpawn throws the error which()
\* raised (the not-found error for a missing program, the lookup's own error
\* otherwise), no child is spawned, no child event occurs and no debug line
\* is printed; at most one child is spawned, at most one debug line is
\* printed, and both carry the path the lookup returned and the given
\* arguments.
C15_LookupFirst ==
    op = "whichSpawn" =>
        /\ spc = "start" => (spawnLog = <<>> /\ debugLines = <<>>)
        /\ (spc # "start" /\ ~lookup.ok) =>
              /\ spawnLog = <<>>
              /\ debugLines = <<>>
              /\ childEvents = <<>>
              /\ promise = NoPromise
              /\ spc = "done" =>
                    wresult = Throw(IF lookup.code = "ENOENT"
                                    THEN ExpectedError(programName)
                                    ELSE Errno(lookup.code))
        /\ Len(spawnLog) <= 1
        /\ Len(debugLines) <= 1
        /\ spawnLog # <<>> =>
              /\ lookup.ok
              /\ lookup.path # EmptyString
              /\ spawnLog[1] = <<lookup.path, args>>
        /\ debugLines # <<>> => (debugEnv /\ debugLines = spawnLog)

\* the lookup failed with EACCES while DEBUG was set: whichSpawn threw that
\* error, spawned nothing and printed nothing
C15_Witness ==
    /\ op = "whichSpawn"
    /\ spc = "done"
    /\ debugEnv
    /\ ~lookup.ok
    /\ lookup.code = "EACCES"
    /\ wresult = Throw(Errno("EACCES"))
    /\ spawnLog = <<>>
    /\ debugLines = <<>>

\* ------------------------------------------------------------------------
\* getManualSortCompareFunction()
\* ------------------------------------------------------------------------

\* The items that are sorted are strings: sequences of characters, a
\* character being its rank (1 for 'a', 2 for 'b', 3 for 'c').
\* 'a', 'b', 'c' and 'ab'
Items == {<<1>>, <<2>>, <<3>>, <<1, 2>>}
\* The items a manuallySortedArray is made of: 'a', 'b' and 'ab'
RefItems == {<<1>>, <<2>>, <<1, 2>>}
\* The equalityFunc arguments explored:
\*   exact         (a, x) => a === x
\*   startsWith    (a, x) => a.startsWith(x)
\*   sameLength    (a, x) => a.length === x.length
\*   indexIsLength (a, x, index) => index === a.length - 1
EqualityFuncs == {"exact", "startsWith", "sameLength", "indexIsLength"}

\* a < b on strings: the order of the code units, a proper prefix first
StrLess(x, y) ==
    \E k \in 1..(Len(x) + 1) :
        /\ k <= Len(y)
        /\ \A j \in 1..(k - 1) : x[j] = y[j]
        /\ (k = Len(x) + 1 \/ x[k] < y[k])

\* equalityFunc(a, x, index, array), index counting from 1 here
EqualityHolds(eq, a, x, index, array) ==
    CASE eq = "exact" -> a = x
      [] eq = "startsWith" ->
            Len(x) <= Len(a) /\ \A j \in 1..Len(x) : a[j] = x[j]
      [] eq = "sameLength" -> Len(a) = Len(x)
      [] eq = "indexIsLength" -> index = Len(a)
      [] OTHER -> FALSE

\* array.findIndex((x, index, array) => equalityFunc(a, x, index, array)):
\* the first index (from 0) whose element passes the test, or -1
FindIndex(array, eq, a) ==
    LET hits == {i \in 1..Len(array) : EqualityHolds(eq, a, array[i], i, array)}
    IN  IF hits = {} THEN -1
        ELSE (CHOOSE i \in hits : \A j \in hits : i <= j) - 1

\* the compare function getManualSortCompareFunction returns
Compare_NotFoundFirst(array, eq, a, b) ==
    LET indexA == FindIndex(array, eq, a)
        indexB == FindIndex(array, eq, b)
    IN  IF indexA >= 0 /\ indexB >= 0 THEN indexA - indexB
        ELSE IF indexA < 0 /\ indexB < 0
             THEN IF StrLess(a, b) THEN -1 ELSE IF StrLess(b, a) THEN 1 ELSE 0
        ELSE IF indexA < 0 THEN -1 ELSE 1
Compare_NeverEqual(array, eq, a, b) ==
    LET indexA == FindIndex(array, eq, a)
        indexB == FindIndex(array, eq, b)
    IN  IF indexA >= 0 /\ indexB >= 0 THEN indexA - indexB
        ELSE IF indexA < 0 /\ indexB < 0
             THEN IF StrLess(a, b) THEN -1 ELSE 1
        ELSE IF indexA < 0 THEN 1 ELSE -1
Compare(array, eq, a, b) ==
    LET indexA == FindIndex(array, eq, a)
        indexB == FindIndex(array, eq, b)
    IN  IF indexA >= 0 /\ indexB >= 0 THEN indexA - indexB
        ELSE IF indexA < 0 /\ indexB < 0
             THEN IF StrLess(a, b) THEN -1 ELSE IF StrLess(b, a) THEN 1 ELSE 0
        ELSE IF indexA < 0 THEN 1 ELSE -1

\* One step of the sort: x goes behind the last element of the sorted run
\* that does not compare greater than it (the sort is stable)
RECURSIVE InsertSorted(_, _, _, _)
InsertSorted(run, x, array, eq) ==
    IF run = <<>> THEN <<x>>
    ELSE IF Compare(array, eq, run[Len(run)], x) > 0
         THEN Append(InsertSorted(SubSeq(run, 1, Len(run) - 1), x, array, eq),
                     run[Len(run)])
    ELSE Append(run, x)

\* arr.sort(compare) with the compare function of getManualSortCompareFunction
RECURSIVE SortWith(_, _, _)
SortWith(arr, array, eq) ==
    IF arr = <<>> THEN <<>>
    ELSE InsertSorted(SortWith(SubSeq(arr, 1, Len(arr) - 1), array, eq),
                      arr[Len(arr)], array, eq)

SortStart ==
    /\ manuallySortedArray \in SeqsUpTo(RefItems, MaxRefLen)
    /\ equalityFunc \in EqualityFuncs
    /\ list \in SeqsUpTo(Items, MaxListLen)
    /\ sorted = <<>>
    /\ sortpc = "start"
    /\ cmpArgs = <<>>
    /\ cmpResults = <<>>

InitSort == SortStart /\ IdleRetry /\ IdleSpawn /\ IdleEscape /\ IdleAgain /\ IdleShell /\ IdleProxy /\ IdleSudo

\* list.sort(getManualSortCompareFunction(manuallySortedArray, equalityFunc))
SortCall ==
    /\ sortpc = "start"
    /\ sorted' = SortWith(list, manuallySortedArray, equalityFunc)
    /\ sortpc' = "sorted"
    /\ UNCHANGED notSortVars
    /\ UNCHANGED <<manuallySortedArray, equalityFunc, list, cmpArgs, cmpResults>>

NextSort == SortCall

SpecSort == InitSort /\ [][NextSort]_vars

\* The compare function by itself, called on the pairs of three items
CompareStart ==
    /\ manuallySortedArray \in SeqsUpTo(RefItems, MaxRefLen)
    /\ equalityFunc \in EqualityFuncs
    /\ list = <<>>
    /\ sorted = <<>>
    /\ sortpc = "compare"
    /\ cmpArgs \in Items \X Items \X Items
    /\ cmpResults = <<>>

InitCompare == CompareStart /\ IdleRetry /\ IdleSpawn /\ IdleEscape /\ IdleAgain /\ IdleShell /\ IdleProxy /\ IdleSudo

\* compare(a, a), compare(a, b), compare(b, a), compare(b, c), compare(a, c)
CompareCalls ==
    /\ sortpc = "compare"
    /\ LET a == cmpArgs[1]
           b == cmpArgs[2]
           c == cmpArgs[3]
       IN  cmpResults' =
              [aa |-> Compare(manuallySortedArray, equalityFunc, a, a),
               ab |-> Compare(manuallySortedArray, equalityFunc, a, b),
               ba |-> Compare(manuallySortedArray, equalityFunc, b, a),
               bc |-> Compare(manuallySortedArray, equalityFunc, b, c),
               ac |-> Compare(manuallySortedArray, equalityFunc, a, c)]
    /\ sortpc' = "compared"
    /\ UNCHANGED notSortVars
    /\ UNCHANGED <<manuallySortedArray, equalityFunc, list, sorted, cmpArgs>>

NextCompare == CompareCalls

SpecCompare == InitCompare /\ [][NextCompare]_vars

\* ------------------------------------------------------------------------
\* Properties of getManualSortCompareFunction()
\* ------------------------------------------------------------------------

\* the compare function of the state's arguments
Cmp(a, b) == Compare(manuallySortedArray, equalityFunc, a, b)
\* whether the test matches x somewhere in the reference array, and the
\* first place where it does
Matches(x) ==
    {i \in 1..Len(manuallySortedArray) :
        EqualityHolds(equalityFunc, x, manuallySortedArray[i], i, manuallySortedArray)}
Found(x) == Matches(x) # {}
FirstMatch(x) == CHOOSE i \in Matches(x) : \A j \in Matches(x) : i <= j
Sign(n) == IF n < 0 THEN -1 ELSE IF n > 0 THEN 1 ELSE 0
\* how often x occurs in the sequence q
Occurrences(q, x) == Cardinality({i \in 1..Len(q) : q[i] = x})

\* C8: compare(a, b) orders by the first index of the reference array at
\* which the test matches each: both found, the lower index first; one
\* found, the found one first; none found, the natural order.  So a sorted
\* list has every found item before every not-found item and the found
\* items in reference order; ['b','a'] with exact match sorts ['a','b','c']
\* to ['b','a','c'].
C8_ComparatorOrder ==
    /\ \A a, b \in Items :
          /\ (Found(a) /\ Found(b)) =>
                Sign(Cmp(a, b)) = Sign(FirstMatch(a) - FirstMatch(b))
          /\ (Found(a) /\ ~Found(b)) => Cmp(a, b) < 0
          /\ (~Found(a) /\ Found(b)) => Cmp(a, b) > 0
          /\ (~Found(a) /\ ~Found(b)) =>
                Cmp(a, b) = (IF StrLess(a, b) THEN -1 ELSE IF StrLess(b, a) THEN 1 ELSE 0)
    /\ sortpc = "sorted" =>
          /\ Len(sorted) = Len(list)
          /\ \A x \in Items : Occurrences(sorted, x) = Occurrences(list, x)
          /\ \A i, j \in 1..Len(sorted) :
                i < j =>
                   /\ Found(sorted[j]) => Found(sorted[i])
                   /\ Found(sorted[j]) => FirstMatch(sorted[i]) <= FirstMatch(sorted[j])
                   /\ ~Found(sorted[i]) => ~StrLess(sorted[j], sorted[i])
    /\ (/\ sortpc = "sorted"
        /\ manuallySortedArray = << <<2>>, <<1>> >>
        /\ equalityFunc = "exact"
        /\ list = << <<1>>, <<2>>, <<3>> >>)
       => sorted = << <<2>>, <<1>>, <<3>> >>

C8_Witness ==
    /\ sortpc = "sorted"
    /\ manuallySortedArray = << <<2>>, <<1>> >>
    /\ equalityFunc = "exact"
    /\ list = << <<1>>, <<2>>, <<3>> >>
    /\ sorted = << <<2>>, <<1>>, <<3>> >>

\* C9: For every reference array and every test, compare is a strict weak
\* ordering: compare(a, a) = 0, sign(compare(a, b)) = -sign(compare(b, a)),
\* 'a before b' is transitive and 'compare = 0' is transitive.
C9_StrictWeakOrder ==
    sortpc = "compared" =>
        /\ cmpResults.aa = 0
        /\ Sign(cmpResults.ab) = -Sign(cmpResults.ba)
        /\ (cmpResults.ab < 0 /\ cmpResults.bc < 0) => cmpResults.ac < 0
        /\ (cmpResults.ab = 0 /\ cmpResults.bc = 0) => cmpResults.ac = 0

\* 'ab' and 'a' both match 'a', 'b' comes before them, 'c' is not found
C9_Witness ==
    /\ sortpc = "compared"
    /\ equalityFunc = "startsWith"
    /\ manuallySortedArray = << <<2>>, <<1>> >>
    /\ cmpArgs = << <<2>>, <<1, 2>>, <<3>> >>
    /\ cmpResults.ab < 0
    /\ cmpResults.bc < 0
    /\ cmpResults.ac < 0

\* ------------------------------------------------------------------------
\* windowsCmdExeEscapeArg()
\* ------------------------------------------------------------------------

\* A string is the sequence of its characters
DQ == "\""
Caret == "^"
\* The characters of the regular expression /[()%!^<>&|]/
MetaChars == {"(", ")", "%", "!", "^", "<", ">", "&", "|"}
\* The characters the arguments explored are made of
ArgChars == {DQ, Caret, "&", "a"}

\* if (arg.length > 1 && arg.startsWith('"') && arg.endsWith('"'))
\*     arg = arg.slice(1, -1);
StripOuterQuotes_Keep(s) == s
StripOuterQuotes(s) ==
    IF Len(s) > 1 /\ s[1] = DQ /\ s[Len(s)] = DQ
    THEN SubSeq(s, 2, Len(s) - 1)
    ELSE s

\* arg.replace(/[()%!^<>&|]/g, '^$&')
RECURSIVE CaretEscape(_)
CaretEscape(s) ==
    IF s = <<>> THEN <<>>
    ELSE (IF s[1] \in MetaChars THEN <<Caret, s[1]>> ELSE <<s[1]>>)
         \o CaretEscape(Tail(s))

\* arg.replace(/["]/g, '""')
RECURSIVE DoubleQuotes(_)
DoubleQuotes(s) ==
    IF s = <<>> THEN <<>>
    ELSE (IF s[1] = DQ THEN <<DQ, DQ>> ELSE <<s[1]>>) \o DoubleQuotes(Tail(s))

WindowsCmdExeEscapeArg(s) ==
    <<DQ>> \o DoubleQuotes(CaretEscape(StripOuterQuotes(s))) \o <<DQ>>

\* How an argument is read back out of a cmd.exe command line (the rules of
\* the article the source refers to): a double quote opens or closes a
\* quoted run and is dropped, but inside a quoted run two double quotes in a
\* row give one; outside a quoted run a caret is dropped and the character
\* after it is taken as it is; inside a quoted run a caret is an ordinary
\* character.
RECURSIVE CmdExeParseFrom(_, _, _)
CmdExeParseFrom(s, i, inQuotes) ==
    IF i > Len(s) THEN <<>>
    ELSE IF s[i] = DQ
         THEN IF inQuotes /\ i < Len(s) /\ s[i + 1] = DQ
              THEN <<DQ>> \o CmdExeParseFrom(s, i + 2, TRUE)
              ELSE CmdExeParseFrom(s, i + 1, ~inQuotes)
    ELSE IF s[i] = Caret /\ ~inQuotes
         THEN IF i < Len(s)
              THEN <<s[i + 1]>> \o CmdExeParseFrom(s, i + 2, FALSE)
              ELSE <<>>
    ELSE <<s[i]>> \o CmdExeParseFrom(s, i + 1, inQuotes)
CmdExeParse(s) == CmdExeParseFrom(s, 1, FALSE)

EscapeStart ==
    /\ arg \in SeqsUpTo(ArgChars, MaxArgLen)
    /\ escaped = <<>>
    /\ parsed = <<>>
    /\ epc = "start"

InitEscape == EscapeStart /\ IdleRetry /\ IdleSpawn /\ IdleSort /\ IdleAgain /\ IdleShell /\ IdleProxy /\ IdleSudo

\* windowsCmdExeEscapeArg(arg)
EscapeCall ==
    /\ epc = "start"
    /\ escaped' = WindowsCmdExeEscapeArg(arg)
    /\ epc' = "escaped"
    /\ UNCHANGED notEscapeVars
    /\ UNCHANGED <<arg, parsed>>

\* cmd.exe runs a command line that holds the escaped argument
CmdExeReads ==
    /\ epc = "escaped"
    /\ parsed' = CmdExeParse(escaped)
    /\ epc' = "parsed"
    /\ UNCHANGED notEscapeVars
    /\ UNCHANGED <<arg, escaped>>

NextEscape ==
    \/ EscapeCall
    \/ CmdExeReads

SpecEscape == InitEscape /\ [][NextEscape]_vars

\* windowsCmdExeEscapeArg on an argument given in double quotes, and on an
\* argument that was escaped before
AgainStart ==
    /\ requoted = <<>>
    /\ twice = <<>>
    /\ apc = "start"

InitEscapeAgain == EscapeStart /\ AgainStart /\ IdleRetry /\ IdleSpawn /\ IdleSort /\ IdleShell /\ IdleProxy /\ IdleSudo

\* windowsCmdExeEscapeArg('"' + arg + '"')
EscapeQuotedCall ==
    /\ epc = "escaped"
    /\ apc = "start"
    /\ requoted' = WindowsCmdExeEscapeArg(<<DQ>> \o arg \o <<DQ>>)
    /\ apc' = "requoted"
    /\ UNCHANGED notAgainVars
    /\ UNCHANGED twice

\* windowsCmdExeEscapeArg(escaped), escaped being windowsCmdExeEscapeArg(arg)
EscapeAgainCall ==
    /\ apc = "requoted"
    /\ twice' = WindowsCmdExeEscapeArg(escaped)
    /\ apc' = "twice"
    /\ UNCHANGED notAgainVars
    /\ UNCHANGED requoted

NextEscapeAgain ==
    \/ EscapeCall
    \/ EscapeQuotedCall
    \/ EscapeAgainCall

SpecEscapeAgain == InitEscapeAgain /\ [][NextEscapeAgain]_vars

\* ------------------------------------------------------------------------
\* isWindowsComExeShell() and shellEscape()
\* ------------------------------------------------------------------------

SQ == "'"
\* The values of process.platform explored
Platforms == {"win32", "linux", "darwin"}
\* The values of process.env.SHELL explored: not set, empty, a shell
ShellEnvValues == {Absent, Present(<<>>), Present(<<"/bin/", "bash">>)}
\* The values of process.env.ComSpec explored: not set, cmd.exe, another
\* command interpreter (a string is the sequence of its parts here)
ComSpecValues ==
    {Absent,
     Present(<<"C:\\WINDOWS\\system32\\", "cmd.exe">>),
     Present(<<"C:\\Program Files\\JPSoft\\", "tcc.exe">>)}
\* The arguments explored: a, a&, "a" and '
ShellArgValues == {<<"a">>, <<"a", "&">>, <<DQ, "a", DQ>>, <<SQ>>}

\* s.endsWith(suffix)
EndsWith(s, suffix) ==
    /\ Len(s) >= Len(suffix)
    /\ SubSeq(s, Len(s) - Len(suffix) + 1, Len(s)) = suffix

\* isWindowsComExeShell():
\*   process.env.SHELL == null && process.env.ComSpec != null &&
\*   process.env.ComSpec.endsWith('cmd.exe')
IsWindowsComExeShell_NoShellTest(shellEnv, comSpec) ==
    /\ comSpec # Absent
    /\ \A c \in comSpec : EndsWith(c, <<"cmd.exe">>)
IsWindowsComExeShell(shellEnv, comSpec) ==
    /\ shellEnv = Absent
    /\ comSpec # Absent
    /\ \A c \in comSpec : EndsWith(c, <<"cmd.exe">>)

\* const isCmdExe = detectShell ? isWindowsComExeShell()
\*                              : process.platform === 'win32';
IsCmdExe(detect, plat, shellEnv, comSpec) ==
    IF detect THEN IsWindowsComExeShell(shellEnv, comSpec) ELSE plat = "win32"

\* The characters the shell-escape package leaves alone: /[A-Za-z0-9_\/:=-]/
PosixSafeChars == {"a", "_", "/", ":", "=", "-"}
\* Each single quote becomes '\''
RECURSIVE PosixQuoteInner(_)
PosixQuoteInner(s) ==
    IF s = <<>> THEN <<>>
    ELSE (IF s[1] = SQ THEN <<SQ, "\\", SQ, SQ>> ELSE <<s[1]>>)
         \o PosixQuoteInner(Tail(s))
\* shellEscapeFunc([v]): POSIX single-quote escaping of one argument
PosixEscape(s) ==
    IF \A i \in 1..Len(s) : s[i] \in PosixSafeChars
    THEN s
    ELSE <<SQ>> \o PosixQuoteInner(s) \o <<SQ>>

\* shellEscape(args, detectShell)
ShellEscape(argv, detect, plat, shellEnv, comSpec) ==
    IF IsCmdExe(detect, plat, shellEnv, comSpec)
    THEN [i \in 1..Len(argv) |-> WindowsCmdExeEscapeArg(argv[i])]
    ELSE [i \in 1..Len(argv) |-> PosixEscape(argv[i])]

ShellStart ==
    /\ shArgs \in SeqsUpTo(ShellArgValues, MaxShellArgs)
    /\ detectShell \in BOOLEAN
    /\ platform \in Platforms
    /\ envSHELL \in ShellEnvValues
    /\ envComSpec \in ComSpecValues
    /\ shOut = <<>>
    /\ shpc = "start"

InitShell == ShellStart /\ IdleRetry /\ IdleSpawn /\ IdleSort /\ IdleEscape /\ IdleAgain /\ IdleProxy /\ IdleSudo

\* shellEscape(shArgs, detectShell)
ShellEscapeCall ==
    /\ shpc = "start"
    /\ shOut' = ShellEscape(shArgs, detectShell, platform, envSHELL, envComSpec)
    /\ shpc' = "done"
    /\ UNCHANGED notShellVars
    /\ UNCHANGED <<shArgs, detectShell, platform, envSHELL, envComSpec>>

NextShell == ShellEscapeCall

SpecShell == InitShell /\ [][NextShell]_vars

\* ------------------------------------------------------------------------
\* Properties of shellEscape()
\* ------------------------------------------------------------------------

\* every argument escaped for cmd.exe, every argument escaped for a POSIX shell
AllCmdExe == shOut = [i \in 1..Len(shArgs) |-> WindowsCmdExeEscapeArg(shArgs[i])]
AllPosix == shOut = [i \in 1..Len(shArgs) |-> PosixEscape(shArgs[i])]
ComSpecIsCmdExe ==
    envComSpec # Absent /\ \A c \in envComSpec : c[Len(c)] = "cmd.exe"

\* C12 as stated: with detection requested and SHELL not set, the dialect
\* is the native one of the host operating system (cmd.exe escaping iff the
\* platform is win32).
C12_DetectFallsBackToHost ==
    (shpc = "done" /\ detectShell /\ envSHELL = Absent /\ shArgs # <<>>) =>
        (AllCmdExe <=> platform = "win32")

\* C12 as amended: with detection requested, SHELL being set selects POSIX
\* escaping even on a Windows host, and otherwise cmd.exe escaping is used
\* iff ComSpec is set and ends with 'cmd.exe', whatever the platform;
\* without detection cmd.exe escaping is used iff the platform is win32,
\* whatever SHELL and ComSpec are.  All arguments of a call are escaped
\* with one dialect.
C12_DialectSelection ==
    shpc = "done" =>
        /\ Len(shOut) = Len(shArgs)
        /\ AllCmdExe \/ AllPosix
        /\ (detectShell /\ envSHELL # Absent) => AllPosix
        /\ (detectShell /\ envSHELL = Absent /\ ComSpecIsCmdExe) => AllCmdExe
        /\ (detectShell /\ envSHELL = Absent /\ ~ComSpecIsCmdExe) => AllPosix
        /\ (~detectShell /\ platform = "win32") => AllCmdExe
        /\ (~detectShell /\ platform # "win32") => AllPosix

\* detection on a Windows host where SHELL is set: POSIX escaping
C12_Witness ==
    /\ shpc = "done"
    /\ detectShell
    /\ platform = "win32"
    /\ envSHELL = Present(<<"/bin/", "bash">>)
    /\ ComSpecIsCmdExe
    /\ shArgs = << <<"a", "&">>, <<SQ>> >>
    /\ shOut = << <<SQ, "a", "&", SQ>>, <<SQ, SQ, "\\", SQ, SQ, SQ>> >>

\* ------------------------------------------------------------------------
\* getProxyConfig()
\* ------------------------------------------------------------------------
\* A string is the sequence of its tokens: "user:pw" is <<"user", ":", "pw">>.

\* JavaScript truthiness of an optional string: undefined and '' are falsy
TruthyString(s) == s # Absent /\ s # Present(EmptyString)

\* s.lastIndexOf(ch): the 0-based position of the last ch in s, or -1
LastIndexOf(s, ch) ==
    IF \E k \in 1..Len(s) : s[k] = ch
    THEN (CHOOSE k \in 1..Len(s) :
              s[k] = ch /\ \A j \in (k + 1)..Len(s) : s[j] # ch) - 1
    ELSE -1
\* s.indexOf(ch): the 0-based position of the first ch in s, or -1
IndexOf(s, ch) ==
    IF \E k \in 1..Len(s) : s[k] = ch
    THEN (CHOOSE k \in 1..Len(s) :
              s[k] = ch /\ \A j \in 1..(k - 1) : s[j] # ch) - 1
    ELSE -1
\* s.substring(from, to) and s.substring(from), 0-based
Substring(s, from, to) == SubSeq(s, from + 1, to)
SubstringFrom(s, from) == SubSeq(s, from + 1, Len(s))

\* The schemes of the proxy URLs explored, and their default ports
Schemes == {"http://", "https://"}
DefaultPort(scheme) == IF scheme = "http://" THEN "80" ELSE "443"

\* new URL(proxyUrl): Absent when the constructor throws (no scheme, no
\* host), otherwise the fields of the URL object.  A default port reads ''.
ParseURL(s) ==
    IF s = <<>> \/ s[1] \notin Schemes
    THEN Absent
    ELSE LET rest == Tail(s)
             at == IndexOf(rest, "@")
             userinfo == IF at < 0 THEN <<>> ELSE Substring(rest, 0, at)
             hostport == SubstringFrom(rest, at + 1)
             uc == IndexOf(userinfo, ":")
             hc == IndexOf(hostport, ":")
             hostname == IF hc < 0 THEN hostport ELSE Substring(hostport, 0, hc)
             portText == IF hc < 0 THEN <<>> ELSE SubstringFrom(hostport, hc + 1)
         IN  IF hostname = <<>>
             THEN Absent
             ELSE Present([hostname |-> hostname,
                           port |-> IF portText = <<DefaultPort(s[1])>>
                                    THEN <<>> ELSE portText,
                           username |-> IF uc < 0 THEN userinfo
                                        ELSE Substring(userinfo, 0, uc),
                           password |-> IF uc < 0 THEN <<>>
                                        ELSE SubstringFrom(userinfo, uc + 1)])

\* The proxy URLs explored: three well-formed ones and two that
\* new URL() rejects
WellFormedUrls ==
    {<<"http://", "proxy.local", ":", "8080">>,
     <<"https://", "user", ":", "pw", "@", "secure.local", ":", "443">>,
     <<"http://", "user", "@", "plain.local">>}
MalformedUrls == {<<"proxy.local">>, <<"http://">>}
\* The values of an environment variable explored: not set, empty, a URL
ProxyEnvValues ==
    {Absent, Present(EmptyString)}
        \cup {Present(u) : u \in WellFormedUrls \cup MalformedUrls}

\* The values of tunnelNgConfig.proxyAuth explored
ProxyAuths ==
    {Absent, Present(EmptyString), Present(<<"user", ":", "pw">>),
     Present(<<":", "pw">>), Present(<<"user">>),
     Present(<<"a", ":", "b", ":", "c">>)}
\* The values of tunnelNgConfig.port explored: a number, or not given
TunnelPorts == {Absent, Present(8888)}
\* The values of global.PROXY_CONFIG explored: undefined, or an object
TunnelNgConfigs ==
    {Absent} \cup
    {Present([host |-> <<"tunnel.local">>, port |-> tp, proxyAuth |-> pa]) :
        tp \in TunnelPorts, pa \in ProxyAuths}

\* `${tunnelNgConfig.port}`
PortTemplate(tp) ==
    IF tp = Absent THEN <<"undefined">>
    ELSE <<ToString(CHOOSE n \in tp : TRUE)>>

\* process.env.HTTPS_PROXY || process.env.HTTP_PROXY
ProxyUrl_HttpFirst(https, http) == IF TruthyString(http) THEN http ELSE https
ProxyUrl(https, http) == IF TruthyString(https) THEN https ELSE http

\* The global-tunnel-ng branch: the object built from tunnelNgConfig
FromTunnelNgConfig(c) ==
    LET proxyAuth == c.proxyAuth
        auth == CHOOSE a \in proxyAuth : TRUE
        i == LastIndexOf(auth, ":")
        split == TruthyString(proxyAuth) /\ i > 0
    IN  [host |-> c.host,
         port |-> PortTemplate(c.port),
         username |-> IF split THEN Present(Substring(auth, 0, i)) ELSE Absent,
         password |-> IF split THEN Present(SubstringFrom(auth, i + 1)) ELSE Absent,
         proxyAuth |-> c.proxyAuth]

\* The global-agent branch: the object built from the URL object
FromUrl(url) ==
    [host |-> url.hostname,
     port |-> url.port,
     username |-> Present(url.username),
     password |-> Present(url.password),
     proxyAuth |-> IF url.username # <<>> /\ url.password # <<>>
                   THEN Present(url.username \o <<":">> \o url.password)
                   ELSE Absent]

\* getProxyConfig(): Absent is undefined
GetProxyConfig(tunnelNgConfig, https, http) ==
    IF tunnelNgConfig # Absent
    THEN Present(FromTunnelNgConfig(CHOOSE c \in tunnelNgConfig : TRUE))
    ELSE LET proxyUrl == ProxyUrl(https, http)
         IN  IF TruthyString(proxyUrl)
             THEN LET url == ParseURL(CHOOSE u \in proxyUrl : TRUE)
                  IN  IF url = Absent
                      THEN Absent
                      ELSE Present(FromUrl(CHOOSE u \in url : TRUE))
             ELSE Absent

ProxyStart ==
    /\ PROXY_CONFIG \in TunnelNgConfigs
    /\ HTTPS_PROXY \in ProxyEnvValues
    /\ HTTP_PROXY \in ProxyEnvValues
    /\ proxyConfig = Absent
    /\ gpc = "start"

InitProxy == ProxyStart /\ IdleRetry /\ IdleSpawn /\ IdleSort /\ IdleEscape /\ IdleAgain /\ IdleShell /\ IdleSudo

\* getProxyConfig()
GetProxyConfigCall ==
    /\ gpc = "start"
    /\ proxyConfig' = GetProxyConfig(PROXY_CONFIG, HTTPS_PROXY, HTTP_PROXY)
    /\ gpc' = "done"
    /\ UNCHANGED notProxyVars
    /\ UNCHANGED <<PROXY_CONFIG, HTTPS_PROXY, HTTP_PROXY>>

NextProxy == GetProxyConfigCall

SpecProxy == InitProxy /\ [][NextProxy]_vars

\* ------------------------------------------------------------------------
\* Properties of getProxyConfig()
\* ------------------------------------------------------------------------

\* The returned configuration is the one of the proxy URL in variable v:
\* none when the URL is malformed, its components otherwise
ConfigOfUrl(v) ==
    \A u \in v :
        /\ u \in MalformedUrls => proxyConfig = Absent
        /\ u \in WellFormedUrls =>
              /\ proxyConfig # Absent
              /\ \A r \in proxyConfig :
                    /\ u \in LET text == <<u[1]>> \o (IF r.username = Present(EmptyString)
                                    THEN <<>>
                                    ELSE (CHOOSE n \in r.username : TRUE)
                                         \o (IF r.password = Present(EmptyString)
                                             THEN <<>>
                                             ELSE <<":">> \o (CHOOSE n \in r.password : TRUE))
                                         \o <<"@">>)
                               \o r.host
                               \o (IF r.port = <<>> THEN <<>> ELSE <<":">> \o r.port)
                             IN  {text, text \o <<":", DefaultPort(u[1])>>}
                    /\ r.proxyAuth # Absent <=>
                          (r.username # Present(EmptyString)
                              /\ r.password # Present(EmptyString))
                    /\ \A a \in r.proxyAuth :
                          Present(a) = {n \o <<":">> \o w :
                                           n \in r.username, w \in r.password}

\* C13: when global.PROXY_CONFIG is present the result is built from its
\* fields alone (host, port as text, proxyAuth, and proxyAuth split at its
\* last colon), whatever HTTPS_PROXY and HTTP_PROXY are; when it is absent
\* and HTTPS_PROXY is set (non-empty) the result is that of HTTPS_PROXY
\* even if HTTP_PROXY is set too; HTTP_PROXY is used when HTTPS_PROXY is
\* unset or empty; a malformed URL gives undefined; with neither variable
\* set the result is undefined.
C13_ProxyPrecedence ==
    gpc = "done" =>
        /\ PROXY_CONFIG # Absent =>
              \A c \in PROXY_CONFIG :
                  /\ proxyConfig # Absent
                  /\ \A r \in proxyConfig :
                        /\ r.host = c.host
                        /\ r.proxyAuth = c.proxyAuth
                        /\ r.port \in {<<"8888">>, <<"undefined">>}
                        /\ (r.port = <<"8888">>) <=> (c.port = Present(8888))
                        /\ (r.username = Absent) <=> (r.password = Absent)
                        /\ r.username # Absent =>
                              \A n \in r.username : \A w \in r.password :
                                  /\ c.proxyAuth = Present(n \o <<":">> \o w)
                                  /\ n # <<>>
                                  /\ \A k \in 1..Len(w) : w[k] # ":"
                        /\ r.username = Absent =>
                              \A a \in c.proxyAuth :
                                  \A k \in 2..Len(a) : a[k] # ":"
        /\ (PROXY_CONFIG = Absent /\ TruthyString(HTTPS_PROXY)) =>
              ConfigOfUrl(HTTPS_PROXY)
        /\ (PROXY_CONFIG = Absent /\ ~TruthyString(HTTPS_PROXY)
                /\ TruthyString(HTTP_PROXY)) =>
              ConfigOfUrl(HTTP_PROXY)
        /\ (PROXY_CONFIG = Absent /\ ~TruthyString(HTTPS_PROXY)
                /\ ~TruthyString(HTTP_PROXY)) =>
              proxyConfig = Absent

\* no global object, both variables set to different well-formed URLs:
\* the configuration is the one of HTTPS_PROXY
C13_Witness ==
    /\ gpc = "done"
    /\ PROXY_CONFIG = Absent
    /\ HTTPS_PROXY = Present(<<"https://", "user", ":", "pw", "@", "secure.local", ":", "443">>)
    /\ HTTP_PROXY = Present(<<"http://", "proxy.local", ":", "8080">>)
    /\ proxyConfig = Present([host |-> <<"secure.local">>, port |-> <<>>,
                              username |-> Present(<<"user">>),
                              password |-> Present(<<"pw">>),
                              proxyAuth |-> Present(<<"user", ":", "pw">>)])

\* ------------------------------------------------------------------------
\* sudo()
\* ------------------------------------------------------------------------

\* The commands, stderr streams, messages and isCLIcmd options explored
SudoCommands == {<<"internal", "osinit">>, <<"mount", "/dev/sda1">>}
StderrOptions == {Absent, Present("process.stderr")}
MsgOptions == {Absent, Present(EmptyString), Present(<<"Flashing a drive needs admin privileges.">>)}
IsCLIcmdOptions == {Absent, Present(TRUE), Present(FALSE)}
\* The errors executeWithPrivileges may fail with
ElevationErrors == {"User did not grant permission", "EPERM"}

DefaultSudoMsg ==
    <<"Admin privileges required: you may be asked for your computer password to continue.">>

\* if (os.platform() !== 'win32')
PrintsMessage_Always(plat) == TRUE
PrintsMessage(plat) == plat # "win32"

\* msg || 'Admin privileges required: ...'
SudoMessage(m) == IF TruthyString(m) THEN CHOOSE t \in m : TRUE ELSE DefaultSudoMsg

\* if (isCLIcmd == null) { isCLIcmd = true; }
IsCLIcmdOrDefault(b) == IF b = Absent THEN TRUE ELSE CHOOSE v \in b : TRUE

LogLine(text) == [kind |-> "console.log", text |-> text]
ExecuteWithPrivileges(cmd, err, cli) ==
    [kind |-> "executeWithPrivileges", command |-> cmd, stderr |-> err, isCLIcmd |-> cli]

SudoStart ==
    /\ command \in SudoCommands
    /\ stderr \in StderrOptions
    /\ msg \in MsgOptions
    /\ isCLIcmd \in IsCLIcmdOptions
    /\ osPlatform \in Platforms
    /\ sudopc = "start"
    /\ elevation = [state |-> "none"]
    /\ sudoLog = <<>>
    /\ sudoResult = NoOutcome

InitSudo == SudoStart /\ IdleRetry /\ IdleSpawn /\ IdleSort /\ IdleEscape /\ IdleAgain /\ IdleShell /\ IdleProxy

\* sudo() is called and waits for import('./sudo')
SudoImport ==
    /\ sudopc = "start"
    /\ sudopc' = "importing"
    /\ UNCHANGED notSudoVars
    /\ UNCHANGED <<command, stderr, msg, isCLIcmd, osPlatform, elevation, sudoLog, sudoResult>>

\* The module is loaded: the message is printed unless on win32, isCLIcmd
\* gets its default, executeWithPrivileges is called and awaited
SudoElevate ==
    /\ sudopc = "importing"
    /\ sudoLog' = sudoLog
                    \o (IF PrintsMessage(osPlatform)
                        THEN <<LogLine(SudoMessage(msg))>> ELSE <<>>)
                    \o <<ExecuteWithPrivileges(command, stderr, IsCLIcmdOrDefault(isCLIcmd))>>
    /\ elevation' = [state |-> "pending"]
    /\ sudopc' = "elevating"
    /\ UNCHANGED notSudoVars
    /\ UNCHANGED <<command, stderr, msg, isCLIcmd, osPlatform, sudoResult>>

\* executeWithPrivileges succeeds
ElevationFulfils ==
    /\ sudopc = "elevating"
    /\ elevation' = [state |-> "fulfilled"]
    /\ sudopc' = "settling"
    /\ UNCHANGED notSudoVars
    /\ UNCHANGED <<command, stderr, msg, isCLIcmd, osPlatform, sudoLog, sudoResult>>

\* executeWithPrivileges fails
ElevationRejects ==
    /\ sudopc = "elevating"
    /\ \E e \in ElevationErrors : elevation' = [state |-> "rejected", err |-> e]
    /\ sudopc' = "settling"
    /\ UNCHANGED notSudoVars
    /\ UNCHANGED <<command, stderr, msg, isCLIcmd, osPlatform, sudoLog, sudoResult>>

\* await executeWithPrivileges(...) resumes; sudo() returns or throws
SudoSettles ==
    /\ sudopc = "settling"
    /\ sudoResult' = IF elevation.state = "rejected"
                     THEN Throw(elevation.err) ELSE Return(Absent)
    /\ sudopc' = "done"
    /\ UNCHANGED notSudoVars
    /\ UNCHANGED <<command, stderr, msg, isCLIcmd, osPlatform, elevation, sudoLog>>

NextSudo ==
    \/ SudoImport
    \/ SudoElevate
    \/ ElevationFulfils
    \/ ElevationRejects
    \/ SudoSettles

SpecSudo == InitSudo /\ [][NextSudo]_vars

\* ------------------------------------------------------------------------
\* Properties of sudo()
\* ------------------------------------------------------------------------

SudoLogged == SelectSeq(sudoLog, LAMBDA e : e.kind = "console.log")
SudoExecuted == SelectSeq(sudoLog, LAMBDA e : e.kind = "executeWithPrivileges")

\* C14: once the elevation primitive has been invoked it has been invoked
\* exactly once, with the command and stderr given and with isCLIcmd true
\* when not given; off win32 exactly one message (msg, or the default text
\* when msg is absent or empty) was printed, and before the invocation; on
\* win32 none was printed; before the invocation nothing has been invoked.
\* When the primitive failed, sudo() throws that failure and does not
\* return normally.
C14_MessageThenElevate ==
    /\ sudopc \in {"start", "importing"} => SudoExecuted = <<>>
    /\ sudopc \in {"elevating", "settling", "done"} =>
          /\ Len(SudoExecuted) = 1
          /\ SudoExecuted[1].command = command
          /\ SudoExecuted[1].stderr = stderr
          /\ isCLIcmd = Absent => SudoExecuted[1].isCLIcmd = TRUE
          /\ isCLIcmd # Absent => Present(SudoExecuted[1].isCLIcmd) = isCLIcmd
          /\ sudoLog[Len(sudoLog)].kind = "executeWithPrivileges"
          /\ osPlatform = "win32" => SudoLogged = <<>>
          /\ osPlatform # "win32" =>
                /\ Len(SudoLogged) = 1
                /\ sudoLog[1].kind = "console.log"
                /\ (msg \in {Absent, Present(EmptyString)}) =>
                      sudoLog[1].text = DefaultSudoMsg
                /\ (msg \notin {Absent, Present(EmptyString)}) =>
                      Present(sudoLog[1].text) = msg
    /\ sudopc = "done" =>
          /\ elevation.state = "rejected" => sudoResult = Throw(elevation.err)
          /\ sudoResult.kind = "return" => elevation.state = "fulfilled"
          /\ sudoResult.kind \in {"return", "throw"}

\* on linux, no msg and no isCLIcmd given, the primitive failed: the
\* default message then the invocation, and sudo() threw the failure
C14_Witness ==
    /\ sudopc = "done"
    /\ osPlatform = "linux"
    /\ msg = Absent
    /\ isCLIcmd = Absent
    /\ sudoLog = <<LogLine(DefaultSudoMsg), ExecuteWithPrivileges(command, stderr, TRUE)>>
    /\ sudoResult = Throw("EPERM")

\* ------------------------------------------------------------------------
\* Properties of windowsCmdExeEscapeArg()
\* ------------------------------------------------------------------------

\* C10: For any argument made of metacharacters and double quotes, the
\* output of the escaper, read by cmd.exe's quoting rules, gives back the
\* argument.
C10_CmdExeRoundTrip ==
    epc = "parsed" => parsed = arg

\* whether s starts and ends with a double quote, as two characters
WrappedInQuotes(s) == Len(s) > 1 /\ s[1] = DQ /\ s[Len(s)] = DQ
\* s without its first and its last character
Inner(s) == SubSeq(s, 2, Len(s) - 1)
\* one escaping layer: a caret before each metacharacter, each double quote
\* twice
EscapingLayer(s) == DoubleQuotes(CaretEscape(s))

\* C11 as stated: for every string t, escaping '"' + t + '"' gives the same
\* output as escaping t.
C11_QuotedSameAsBare ==
    apc \in {"requoted", "twice"} => requoted = escaped

\* C11 as amended: for every t that is not itself wrapped in a pair of
\* double quotes, escaping '"' + t + '"' gives the same output as escaping
\* t; for every t it gives t's escaping layer in one pair of quotes; and
\* escaping an escaped output again gives one more escaping layer of its
\* inner content in one pair of quotes.
C11_NotDoubleWrapped ==
    /\ apc \in {"requoted", "twice"} =>
          /\ ~WrappedInQuotes(arg) => requoted = escaped
          /\ requoted = <<DQ>> \o EscapingLayer(arg) \o <<DQ>>
          /\ WrappedInQuotes(arg) => requoted # escaped
    /\ apc = "twice" =>
          /\ WrappedInQuotes(escaped)
          /\ twice = <<DQ>> \o EscapingLayer(Inner(escaped)) \o <<DQ>>

\* '&"' is escaped twice
C11_Witness ==
    /\ apc = "twice"
    /\ arg = <<"&", DQ>>
    /\ escaped = <<DQ, Caret, "&", DQ, DQ, DQ>>
    /\ requoted = escaped
    /\ twice = <<DQ, Caret, Caret, Caret, "&", DQ, DQ, DQ, DQ, DQ>>

====
